---- MODULE Spec2Model ----
(***************************************************************************)
(* Translation consistency checkers of Zanobot:                            *)
(*   src/check-translations.py           (the "strict" script)             *)
(*   src/check-translations-detailed.py  (the "detailed" script)           *)
(*                                                                         *)
(* Text is a sequence of symbols.  A symbol is one character, written as a *)
(* one-character string, except for the two fixed phrases of the           *)
(* declaration the scripts search for ("export const " and                 *)
(* ": TranslationDict = "), which are single symbols, and "\\xff", which    *)
(* stands for a byte that is not valid UTF-8.                              *)
(***************************************************************************)
EXTENDS Integers, Sequences, FiniteSets, TLC

\* ------------------------------------------------------------------ bounds

\* Body lines of a file whose extraction is followed line by line.
MaxLines == 3
\* Entries of one (nested) dictionary, and its nesting depth.
MaxWidth == 2
MaxDepth == 2
\* Leaf keys of the large locale file (one more than the report's cap).
BigKeys == 21

\* ---------------------------------------------------------- text library

Letters ==
  <<"a", "b", "c", "d", "e", "f", "g", "h", "i", "j", "k", "l", "m",
    "n", "o", "p", "q", "r", "s", "t", "u", "v", "w", "x", "y", "z">>

\* The characters of keys, in code point order (Python compares str by code point).
CodeOrder == <<".", "0", "1", "_">> \o Letters

Ord(c) == CHOOSE i \in 1..Len(CodeOrder) : CodeOrder[i] = c

\* \w of the regular expressions.
WordChars == {CodeOrder[i] : i \in 2..Len(CodeOrder)}

\* \s of the regular expressions, and what str.strip() removes.
WhiteSpace == {" ", "\t", "\r", "\n"}

EXPORT_CONST == "export const "
TRANSLATION_DICT == ": TranslationDict = "
BadByte == "\\xff"

Min(a, b) == IF a < b THEN a ELSE b

\* s[from..] (1-based), empty when from is past the end.
Tail_from(s, from) == SubSeq(s, from, Len(s))

\* str.startswith
StartsWith(s, p) == Len(s) >= Len(p) /\ SubSeq(s, 1, Len(p)) = p

\* The first position from i on whose symbol is not in cs (Len(s) + 1 if none).
RECURSIVE SkipFrom(_, _, _)
SkipFrom(s, i, cs) ==
  IF i <= Len(s) /\ s[i] \in cs THEN SkipFrom(s, i + 1, cs) ELSE i

\* Number of leading symbols of s that are in set cs.
Span(s, cs) == SkipFrom(s, 1, cs) - 1

\* Number of trailing symbols of s that are in set cs.
RECURSIVE SpanBack(_, _)
SpanBack(s, cs) ==
  IF s # <<>> /\ s[Len(s)] \in cs
  THEN 1 + SpanBack(SubSeq(s, 1, Len(s) - 1), cs) ELSE 0

\* str.strip()
Strip(s) ==
  LET l == Span(s, WhiteSpace)
  IN  IF l = Len(s) THEN <<>>
      ELSE SubSeq(s, l + 1, Len(s) - SpanBack(s, WhiteSpace))

\* str.count(c) for a one-character c
Count(s, c) == Cardinality({i \in DOMAIN s : s[i] = c})

\* The first position from i on that holds a line break (Len(text) + 1 if none).
RECURSIVE NextBreak(_, _)
NextBreak(text, i) ==
  IF i > Len(text) \/ text[i] = "\n" THEN i ELSE NextBreak(text, i + 1)

\* str.split('\n') of text[i..]: its lines (always at least one).
RECURSIVE SplitFrom(_, _)
SplitFrom(text, i) ==
  LET n == NextBreak(text, i)
  IN  IF n > Len(text) THEN <<SubSeq(text, i, Len(text))>>
      ELSE <<SubSeq(text, i, n - 1)>> \o SplitFrom(text, n + 1)

Split(text) == SplitFrom(text, 1)

\* '.'.join(path)
RECURSIVE Join(_)
Join(path) ==
  IF path = <<>> THEN <<>>
  ELSE IF Len(path) = 1 THEN path[1]
  ELSE path[1] \o <<".">> \o Join(Tail(path))

\* Lexicographic order of two keys by code point (str.__lt__).
RECURSIVE KeyLess(_, _)
KeyLess(k1, k2) ==
  IF k2 = <<>> THEN FALSE
  ELSE IF k1 = <<>> THEN TRUE
  ELSE IF Head(k1) # Head(k2) THEN Ord(Head(k1)) < Ord(Head(k2))
  ELSE KeyLess(Tail(k1), Tail(k2))

\* sorted(a set of keys): the key with i - 1 keys below it comes i-th.
Sorted(S) ==
  LET ranked == {<<Cardinality({o \in S : KeyLess(o, k)}) + 1, k>> : k \in S}
  IN  [i \in 1..Cardinality(S) |-> (CHOOSE p \in ranked : p[1] = i)[2]]

\* list[:n]
Take(s, n) == SubSeq(s, 1, Min(n, Len(s)))

\* ------------------------------------------------- the regular expressions

\* re.match(r'^\s*(\w+):\s*(.*)$', line): leading white space, an identifier, a
\* colon, then the rest of the line.  key_name is group 1 and value_part is
\* group 2 stripped.
KeyMatch(line) ==
  LET lead == Span(line, WhiteSpace)
      rest == Tail_from(line, lead + 1)
      w    == Span(rest, WordChars)
      ok   == w >= 1 /\ Len(rest) > w /\ rest[w + 1] = ":"
      after == Tail_from(rest, w + 2)
      grp2 == Tail_from(after, Span(after, WhiteSpace) + 1)
  IN  [matched |-> ok,
       key_name |-> IF ok THEN SubSeq(rest, 1, w) ELSE <<>>,
       value_part |-> IF ok THEN Strip(grp2) ELSE <<>>]

\* Whether 'export const \w+: TranslationDict = {' starts at position i of the
\* content; the position of its brace if so, else 0.
HeaderBrace(content, i) ==
  IF content[i] # EXPORT_CONST THEN 0
  ELSE LET rest == Tail_from(content, i + 1)
           w == Span(rest, WordChars)
       IN  IF w >= 1 /\ Len(rest) >= w + 2 /\ rest[w + 1] = TRANSLATION_DICT
              /\ rest[w + 2] = "{"
           THEN i + w + 2 ELSE 0

\* re.search(r'export const \w+: TranslationDict = ({.*});', content, re.DOTALL):
\* group 1 of the leftmost match, the greedy .* running to the last '};' of the
\* content; <<>> when there is no match (a match is never empty: it starts
\* with the brace).
SearchLiteral(content) ==
  LET starts == {i \in DOMAIN content : HeaderBrace(content, i) # 0}
      ends(b) == {j \in (b + 1)..(Len(content) - 1) :
                    content[j] = "}" /\ content[j + 1] = ";"}
      good == {i \in starts : ends(HeaderBrace(content, i)) # {}}
  IN  IF good = {} THEN <<>>
      ELSE LET i == CHOOSE x \in good : \A y \in good : x <= y
               b == HeaderBrace(content, i)
               e == CHOOSE x \in ends(b) : \A y \in ends(b) : y <= x
           IN  SubSeq(content, b, e)

\* open(file_path, 'r', encoding='utf-8').read(): decoding is strict, a byte
\* that is not valid UTF-8 raises UnicodeDecodeError.
Decodable(content) == \A i \in DOMAIN content : content[i] # BadByte

\* ------------------------------------------------------- the key extractors

\* A faulty PopLoop: a line pops at most one segment, however many '}' it has.
PopLoop_Once(current_path, close_braces) ==
  IF close_braces <= 0 \/ current_path = <<>> THEN current_path
  ELSE SubSeq(current_path, 1, Len(current_path) - 1)

\* for _ in range(close_braces): if current_path: current_path.pop()
RECURSIVE PopLoopBody(_, _)
PopLoopBody(current_path, close_braces) ==
  IF close_braces <= 0 THEN current_path
  ELSE PopLoopBody(IF current_path # <<>>
                   THEN SubSeq(current_path, 1, Len(current_path) - 1)
                   ELSE current_path,
                   close_braces - 1)

PopLoop(current_path, close_braces) == PopLoopBody(current_path, close_braces)

\* A faulty DetailedLine: the key of a nested object is added to the result
\* set as well.
DetailedLine_KeepsObjectKey(st, line) ==
  LET stripped == Strip(line)
  IN  IF stripped = <<>> \/ StartsWith(stripped, <<"/", "/">>) THEN st
      ELSE
        LET close_braces == Count(line, "}")
            key_match == KeyMatch(line)
            full_key == Join(Append(st.current_path, key_match.key_name))
            st1 == IF ~key_match.matched THEN st
                   ELSE IF StartsWith(key_match.value_part, <<"{">>)
                   THEN [st EXCEPT !.current_path = Append(@, key_match.key_name),
                                   !.keys = @ \cup {full_key}]
                   ELSE [st EXCEPT !.keys = @ \cup {full_key}]
        IN  IF close_braces > 0
            THEN [st1 EXCEPT !.current_path = PopLoop(@, close_braces)]
            ELSE st1

\* One iteration of the loop over the lines, detailed script.  st holds the
\* closure's current_path and keys.
DetailedLine(st, line) ==
  LET stripped == Strip(line)
  IN  IF stripped = <<>> \/ StartsWith(stripped, <<"/", "/">>) THEN st
      ELSE
        LET close_braces == Count(line, "}")
            key_match == KeyMatch(line)
            full_key == Join(Append(st.current_path, key_match.key_name))
            st1 == IF ~key_match.matched THEN st
                   ELSE IF StartsWith(key_match.value_part, <<"{">>)
                   THEN [st EXCEPT !.current_path = Append(@, key_match.key_name)]
                   ELSE [st EXCEPT !.keys = @ \cup {full_key}]
        IN  IF close_braces > 0
            THEN [st1 EXCEPT !.current_path = PopLoop(@, close_braces)]
            ELSE st1

\* A faulty StrictLine: open_braces is put to use, a line pops only the close
\* braces it does not open itself.
StrictLine_NetBraces(st, line) ==
  LET stripped == Strip(line)
  IN  IF stripped = <<>> \/ StartsWith(stripped, <<"/", "/">>) THEN st
      ELSE
        LET open_braces == Count(line, "{")
            close_braces == Count(line, "}")
            key_match == KeyMatch(line)
            full_key == Join(st.current_path \o <<key_match.key_name>>)
            st0 == [st EXCEPT !.open_braces = open_braces]
            st1 == IF key_match.matched
                   THEN IF StartsWith(key_match.value_part, <<"{">>)
                        THEN [st0 EXCEPT !.current_path = Append(@, key_match.key_name)]
                        ELSE [st0 EXCEPT !.keys = @ \cup {full_key}]
                   ELSE st0
        IN  IF close_braces > open_braces
            THEN [st1 EXCEPT !.current_path = PopLoop(@, close_braces - open_braces)]
            ELSE st1

\* One iteration of the loop over the lines, strict script.  st also holds
\* the locals stack and open_braces, which the script sets and never reads.
StrictLine(st, line) ==
  LET stripped == Strip(line)
  IN  IF stripped = <<>> \/ StartsWith(stripped, <<"/", "/">>) THEN st
      ELSE
        LET open_braces == Count(line, "{")
            close_braces == Count(line, "}")
            key_match == KeyMatch(line)
            full_key == Join(st.current_path \o <<key_match.key_name>>)
            st0 == [st EXCEPT !.open_braces = open_braces]
            st1 == IF key_match.matched
                   THEN IF StartsWith(key_match.value_part, <<"{">>)
                        THEN [st0 EXCEPT !.current_path = Append(@, key_match.key_name)]
                        ELSE [st0 EXCEPT !.keys = @ \cup {full_key}]
                   ELSE st0
        IN  IF close_braces > 0
            THEN [st1 EXCEPT !.current_path = PopLoop(@, close_braces)]
            ELSE st1

\* The loop over all the lines, from the state at the start of the closure.
RECURSIVE DetailedLines(_, _)
DetailedLines(st, lines) ==
  IF lines = <<>> THEN st
  ELSE DetailedLines(DetailedLine(st, Head(lines)), Tail(lines))

RECURSIVE StrictLines(_, _)
StrictLines(st, lines) ==
  IF lines = <<>> THEN st
  ELSE StrictLines(StrictLine(st, Head(lines)), Tail(lines))

DetailedStart == [current_path |-> <<>>, keys |-> {}]
StrictStart == [current_path |-> <<>>, keys |-> {}, stack |-> <<>>, open_braces |-> 0]

\* extract_keys_from_ts on an existing file's content, as one call: raised
\* tells whether the call raised, keys is the set it returned otherwise.
DetailedExtract(content) ==
  IF ~Decodable(content) THEN [raised |-> TRUE, keys |-> {}]
  ELSE LET obj_content == SearchLiteral(content)
       IN  IF obj_content = <<>> THEN [raised |-> FALSE, keys |-> {}]
           ELSE [raised |-> FALSE,
                 keys |-> DetailedLines(DetailedStart, Split(obj_content)).keys]

StrictExtract(content) ==
  IF ~Decodable(content) THEN [raised |-> TRUE, keys |-> {}]
  ELSE LET obj_content == SearchLiteral(content)
       IN  IF obj_content = <<>> THEN [raised |-> FALSE, keys |-> {}]
           ELSE [raised |-> FALSE,
                 keys |-> StrictLines(StrictStart, Split(obj_content)).keys]

\* ------------------------------------------------------------ input files

\* The lines a file body is drawn from.
LinePool ==
  { <<" ">>,                                         \* blank
    <<"/", "/", "}">>,                               \* comment holding a brace
    <<"a", ":", " ", "'", "x", "'", ",">>,           \* a: 'x',
    <<" ", "b", ":", "'", "}", "'">>,                \*  b:'}'
    <<"m", ":", " ", "{">>,                          \* m: {
    <<"}", ",">>,                                    \* },
    <<"n", ":", "{", "a", ":", "1", "}">>,           \* n:{a:1}
    <<"n", ":", "{", "b", ":", "{", "}", "}">>,      \* n:{b:{}}
    <<"}", "}">>,                                    \* }}
    <<"'", "q", "'", ":", " ", "'", "x", "'">>,      \* 'q': 'x'
    <<"m", ":">>,                                    \* m:
    <<"a", ":", "'", BadByte, "'">> }                \* a:'<invalid byte>'

\* Sequences of at most n elements of S.
SeqUpTo(S, n) == UNION {[1..k -> S] : k \in 0..n}

\* The lines, each ended by a line break.
RECURSIVE Unlines(_)
Unlines(ls) ==
  IF ls = <<>> THEN <<>> ELSE Head(ls) \o <<"\n">> \o Unlines(Tail(ls))

DeclarationLine == <<EXPORT_CONST, "e", "n", TRANSLATION_DICT, "{">>

\* A locale file: an import line, then (if declared) the declaration of the
\* dictionary, the body lines and the closing '};'.
FileText(body, declared) ==
  Unlines(<<  <<"i", "m", "p", "o", "r", "t", ";">>  >>)
  \o (IF declared THEN Unlines(<<DeclarationLine>>) ELSE <<>>)
  \o Unlines(body) \o Unlines(<< <<"}", ";">> >>)

\* A nested translation dictionary: a sequence of entries with distinct keys,
\* each a leaf string or, down to the given depth, a nested dictionary.
DictKeys == { <<"a">>, <<"b">>, <<"m">> }
LeafTexts == { <<"x">>, <<"{", "n", "}">> }

DistinctKeys(d) == \A i, j \in DOMAIN d : i # j => d[i].key # d[j].key

RECURSIVE Dicts(_)
Dicts(depth) ==
  LET leaves == [key : DictKeys, kind : {"leaf"}, val : LeafTexts]
      nested == IF depth > 1
                THEN [key : DictKeys, kind : {"dict"}, val : Dicts(depth - 1)]
                ELSE {}
  IN  {d \in SeqUpTo(leaves \cup nested, MaxWidth) : DistinctKeys(d)}

\* The dictionary written one entry per line: a leaf as  key: 'text',  and a
\* nested dictionary opened by  key: {  and closed by a line  }.
RECURSIVE RenderLines(_, _)
RenderLines(d, indent) ==
  IF d = <<>> THEN <<>>
  ELSE LET e == Head(d)
           this == IF e.kind = "leaf"
                   THEN << indent \o e.key \o <<":", " ", "'">> \o e.val \o <<"'", ",">> >>
                   ELSE << indent \o e.key \o <<":", " ", "{">> >>
                        \o RenderLines(e.val, indent \o <<" ", " ">>)
                        \o << indent \o <<"}">> >>
       IN  this \o RenderLines(Tail(d), indent)

DictFile(d) == FileText(RenderLines(d, <<" ", " ">>), TRUE)

NoDict == << [key |-> <<>>, kind |-> "none", val |-> <<>>] >>

\* ------------------------------------------------------------------ state

VARIABLES
  content,   \* the text of the file whose extraction is followed line by line
  dict,      \* the dictionary that file was written from, or NoDict
  extS,      \* extract_keys_from_ts of the strict script, at work on content
  extD,      \* extract_keys_from_ts of the detailed script, at work on content
  files,     \* the locale directory: language code -> file
  mainS,     \* main() of the strict script
  mainD      \* main() of the detailed script

vars == <<content, dict, extS, extD, files, mainS, mainD>>

\* --------------------------- extract_keys_from_ts, followed line by line
\* Both scripts' extractors work on the same content, step for step: a step
\* is the read and the search, one iteration of the loop, or the return.

ExtIdle(st) == st @@ [pc |-> "read", lines |-> <<>>, i |-> 1, result |-> {}]

\* with open(...) as f: content = f.read(); match = re.search(...);
\* if not match: return set(); obj_content = match.group(1); lines = split.
ExtRead(x, text) ==
  IF ~Decodable(text) THEN [x EXCEPT !.pc = "raised"]
  ELSE LET obj_content == SearchLiteral(text)
       IN  IF obj_content = <<>> THEN [x EXCEPT !.pc = "returned", !.result = {}]
           ELSE [x EXCEPT !.pc = "lines", !.lines = Split(obj_content), !.i = 1]

ExtAtLine(x) == x.pc = "lines" /\ x.i <= Len(x.lines)
ExtAtEnd(x) == x.pc = "lines" /\ x.i > Len(x.lines)

\* The closure's variables, as the loop body reads and writes them.
Locals(x) == [f \in DOMAIN x \ {"pc", "lines", "i", "result"} |-> x[f]]

ExtLineS(x) ==
  LET st == StrictLine(Locals(x), x.lines[x.i])
  IN  [f \in DOMAIN x |-> IF f \in DOMAIN st THEN st[f]
                          ELSE IF f = "i" THEN x.i + 1 ELSE x[f]]

ExtLineD(x) ==
  LET st == DetailedLine(Locals(x), x.lines[x.i])
  IN  [f \in DOMAIN x |-> IF f \in DOMAIN st THEN st[f]
                          ELSE IF f = "i" THEN x.i + 1 ELSE x[f]]

\* return keys
ExtReturn(x) == [x EXCEPT !.pc = "returned", !.result = x.keys]

MainIdle == [pc |-> "idle"]

InitExtract ==
  /\ \E body \in SeqUpTo(LinePool, MaxLines), declared \in BOOLEAN :
       content = FileText(body, declared)
  /\ dict = NoDict
  /\ extS = ExtIdle(StrictStart)
  /\ extD = ExtIdle(DetailedStart)
  /\ files = <<>> /\ mainS = MainIdle /\ mainD = MainIdle

InitDict ==
  /\ dict \in Dicts(MaxDepth)
  /\ content = DictFile(dict)
  /\ extS = ExtIdle(StrictStart)
  /\ extD = ExtIdle(DetailedStart)
  /\ files = <<>> /\ mainS = MainIdle /\ mainD = MainIdle

Read ==
  /\ IF extS.pc = "read" THEN TRUE ELSE extD.pc = "read"
  /\ extS' = IF extS.pc = "read" THEN ExtRead(extS, content) ELSE extS
  /\ extD' = IF extD.pc = "read" THEN ExtRead(extD, content) ELSE extD
  /\ UNCHANGED <<content, dict, files, mainS, mainD>>

Line ==
  /\ IF ExtAtLine(extS) THEN TRUE ELSE ExtAtLine(extD)
  /\ extS' = IF ExtAtLine(extS) THEN ExtLineS(extS) ELSE extS
  /\ extD' = IF ExtAtLine(extD) THEN ExtLineD(extD) ELSE extD
  /\ UNCHANGED <<content, dict, files, mainS, mainD>>

Return ==
  /\ ~ExtAtLine(extS) /\ ~ExtAtLine(extD)
  /\ IF ExtAtEnd(extS) THEN TRUE ELSE ExtAtEnd(extD)
  /\ extS' = IF ExtAtEnd(extS) THEN ExtReturn(extS) ELSE extS
  /\ extD' = IF ExtAtEnd(extD) THEN ExtReturn(extD) ELSE extD
  /\ UNCHANGED <<content, dict, files, mainS, mainD>>

NextExtract == Read \/ Line \/ Return

SpecExtract == InitExtract /\ [][NextExtract]_vars
SpecDict == InitDict /\ [][NextExtract]_vars

\* ---------------------------------------------------- the locale directory
\* The state names each language's file; FileOf gives what is on disk under
\* that name: whether the file exists, and its text.

Present(text) == [exists |-> TRUE, text |-> text]

LeafLine(k) == <<k, ":", " ", "'", "x", "'", ",">>

Named(name) == [name |-> name, d |-> <<>>]
Written(d) == [name |-> "dict", d |-> d]

FileOf(f) ==
  CASE f.name = "absent" -> [exists |-> FALSE, text |-> <<>>]
    \* no 'export const ...: TranslationDict = {' in the file
    [] f.name = "noliteral" -> Present(FileText(<<LeafLine("a")>>, FALSE))
    \* a byte that is not valid UTF-8 in a leaf string
    [] f.name = "undecodable" ->
         Present(FileText(<< <<"a", ":", " ", "'", BadByte, "'", ",">> >>, TRUE))
    \* malformed body: stray braces, a quoted key, one plain key q
    [] f.name = "odd" ->
         Present(FileText(<< <<"}", "}">>, <<"'", "a", "'", ":", "{">>,
                             LeafLine("q") >>, TRUE))
    \* one key, a
    [] f.name = "onekey" -> Present(FileText(<<LeafLine("a")>>, TRUE))
    \* BigKeys keys: a, b, c, ...
    [] f.name = "big" ->
         Present(FileText([i \in 1..BigKeys |-> LeafLine(Letters[i])], TRUE))
    \* a dictionary written one entry per line
    [] f.name = "dict" -> Present(DictFile(f.d))

FileChoices ==
  {Named(n) : n \in {"absent", "noliteral", "undecodable", "odd", "onekey", "big"}}

\* Locale files that all hold a menu of two entries, m: { a: ..., b: ... },
\* each leaf with any of the leaf texts.
LocaleDicts ==
  { << [key |-> <<"m">>, kind |-> "dict",
        val |-> << [key |-> <<"a">>, kind |-> "leaf", val |-> ta],
                   [key |-> <<"b">>, kind |-> "leaf", val |-> tb] >>] >>
    : ta \in LeafTexts, tb \in LeafTexts }

\* ------------------------------------------------------------ main()
\* What main() prints is kept as the sequence of its print calls that carry
\* data, each a tuple starting with a tag; the rules ('=' * 80, '-' * 80) and
\* the empty prints are left out.

\* languages = {'en': ..., 'de': ..., 'es': ..., 'fr': ..., 'zh': ...}, in order.
Languages == <<"en", "de", "es", "fr", "zh">>
Codes == {Languages[i] : i \in DOMAIN Languages}
NonReference == Codes \ {"en"}

\* The [:20] of the strict report.
MaxShown == 20

\* A faulty Listing: the note is printed from 20 keys on, not from 21.
Listing_NoteAtTwenty(keys, mark) ==
  LET shown == Take(Sorted(keys), MaxShown)
  IN  [i \in 1..Len(shown) |-> <<mark, shown[i]>>]
      \o (IF Cardinality(keys) >= MaxShown
          THEN << <<"more", Cardinality(keys) - MaxShown>> >>
          ELSE <<>>)

\* for key in sorted(keys)[:20]: print(mark key)
\* if len(keys) > 20: print('... and N more')
Listing(keys, mark) ==
  LET shown == Take(Sorted(keys), MaxShown)
  IN  [i \in 1..Len(shown) |-> <<mark, shown[i]>>]
      \o (IF Cardinality(keys) > MaxShown
          THEN << <<"more", Cardinality(keys) - MaxShown>> >>
          ELSE <<>>)

\* for i, key in enumerate(missing, 1): print(i. key)
Enumerated(missing) == [i \in 1..Len(missing) |-> <<"item", i, missing[i]>>]

StrictMainStart ==
  [pc |-> "extract", i |-> 1, all_keys |-> <<>>, reference_keys |-> {},
   has_issues |-> FALSE, out |-> << <<"title">> >>, exit |-> -1]

DetailedMainStart ==
  [pc |-> "extract", i |-> 1, all_keys |-> <<>>, reference_keys |-> {},
   total_missing |-> 0, out |-> << <<"title">> >>, exit |-> -1]

\* The first loop's iteration for language Languages[m.i]; extract is that
\* script's extract_keys_from_ts applied to the file's text.  An exception of
\* the call is not caught: main() ends there.
ExtractIteration(m, dir, extracted, tag) ==
  LET code == Languages[m.i]
  IN  IF FileOf(dir[code]).exists
      THEN IF extracted.raised THEN [m EXCEPT !.pc = "raised"]
           ELSE [m EXCEPT !.all_keys = (code :> extracted.keys) @@ @,
                          !.out = Append(@, <<tag, code, Cardinality(extracted.keys)>>),
                          !.i = @ + 1]
      ELSE [m EXCEPT !.all_keys = (code :> {}) @@ @,
                     !.out = Append(@, <<"notfound", code>>),
                     !.i = @ + 1]

StrictExtractIteration(m, dir) ==
  ExtractIteration(m, dir, StrictExtract(FileOf(dir[Languages[m.i]]).text), "found")

DetailedExtractIteration(m, dir) ==
  ExtractIteration(m, dir, DetailedExtract(FileOf(dir[Languages[m.i]]).text), "keys")

\* reference_keys = all_keys.get('en', set()); has_issues = False
StrictReference(m) ==
  LET reference_keys == IF "en" \in DOMAIN m.all_keys THEN m.all_keys["en"] ELSE {}
  IN  [m EXCEPT !.reference_keys = reference_keys,
                !.out = Append(@, <<"reference", Cardinality(reference_keys)>>),
                !.has_issues = FALSE, !.pc = "compare", !.i = 2]

DetailedReference(m) ==
  LET reference_keys == IF "en" \in DOMAIN m.all_keys THEN m.all_keys["en"] ELSE {}
  IN  [m EXCEPT !.reference_keys = reference_keys, !.pc = "compare", !.i = 2]

\* A faulty StrictCompare: extra keys are reported but do not set has_issues.
StrictCompare_ExtraNotAnIssue(m) ==
  LET code == Languages[m.i]
      lang_keys == m.all_keys[code]
      missing == m.reference_keys \ lang_keys
      extra == lang_keys \ m.reference_keys
  IN  IF missing # {} \/ extra # {}
      THEN [m EXCEPT
              !.has_issues = (missing # {}),
              !.out = @ \o << <<"inconsistent", code>> >>
                        \o (IF missing # {}
                            THEN << <<"MISSING", Cardinality(missing)>> >>
                                 \o Listing(missing, "-")
                            ELSE <<>>)
                        \o (IF extra # {}
                            THEN << <<"EXTRA", Cardinality(extra)>> >>
                                 \o Listing(extra, "+")
                            ELSE <<>>),
              !.i = @ + 1]
      ELSE [m EXCEPT !.out = Append(@, <<"match", code>>), !.i = @ + 1]

\* The second loop's iteration for the non-reference language Languages[m.i],
\* strict script.
StrictCompare(m) ==
  LET code == Languages[m.i]
      lang_keys == m.all_keys[code]
      missing == m.reference_keys \ lang_keys
      extra == lang_keys \ m.reference_keys
  IN  IF missing # {} \/ extra # {}
      THEN [m EXCEPT
              !.has_issues = TRUE,
              !.out = @ \o << <<"inconsistent", code>> >>
                        \o (IF missing # {}
                            THEN << <<"MISSING", Cardinality(missing)>> >>
                                 \o Listing(missing, "-")
                            ELSE <<>>)
                        \o (IF extra # {}
                            THEN << <<"EXTRA", Cardinality(extra)>> >>
                                 \o Listing(extra, "+")
                            ELSE <<>>),
              !.i = @ + 1]
      ELSE [m EXCEPT !.out = Append(@, <<"match", code>>), !.i = @ + 1]

\* The second loop's iteration, detailed script.
DetailedCompare(m) ==
  LET code == Languages[m.i]
      lang_keys == m.all_keys[code]
      missing == Sorted(m.reference_keys \ lang_keys)
  IN  [m EXCEPT
         !.out = @ \o << <<"language", code>> >>
                   \o (IF missing # <<>>
                       THEN << <<"MISSING", Len(missing)>> >> \o Enumerated(missing)
                       ELSE << <<"allpresent">> >>),
         !.i = @ + 1]

\* The summary loop's iteration, detailed script.
DetailedSummary(m) ==
  LET code == Languages[m.i]
      missing_count == Cardinality(m.reference_keys \ m.all_keys[code])
  IN  [m EXCEPT !.total_missing = @ + missing_count,
                !.out = Append(@, <<"status", missing_count = 0, code, missing_count>>),
                !.i = @ + 1]

\* if not has_issues: ... return 0  else: ... return 1
StrictFinish(m) ==
  IF ~m.has_issues
  THEN [m EXCEPT !.out = Append(@, <<"SUCCESS">>), !.exit = 0, !.pc = "done"]
  ELSE [m EXCEPT !.out = @ \o << <<"FAILURE">>, <<"recommendation">> >>,
                 !.exit = 1, !.pc = "done"]

\* if total_missing == 0: ... return 0  else: ... return 1
DetailedFinish(m) ==
  IF m.total_missing = 0
  THEN [m EXCEPT !.out = Append(@, <<"complete">>), !.exit = 0, !.pc = "done"]
  ELSE [m EXCEPT !.out = Append(@, <<"total", m.total_missing>>),
                 !.exit = 1, !.pc = "done"]

\* The two scripts are run one after the other on the same directory: first
\* the strict one, then the detailed one.  They share nothing but the files.
InitMain ==
  /\ \/ files \in [Codes -> FileChoices]
     \/ files \in [Codes -> {Written(d) : d \in LocaleDicts}]
  /\ mainS = StrictMainStart
  /\ mainD = DetailedMainStart
  /\ content = <<>> /\ dict = NoDict
  /\ extS = [pc |-> "idle"] /\ extD = [pc |-> "idle"]

Finished(m) == m.pc \in {"done", "raised"}

S_Extract ==
  /\ mainS.pc = "extract" /\ mainS.i <= Len(Languages)
  /\ mainS' = StrictExtractIteration(mainS, files)
  /\ UNCHANGED <<content, dict, extS, extD, files, mainD>>

S_Reference ==
  /\ mainS.pc = "extract" /\ mainS.i > Len(Languages)
  /\ mainS' = StrictReference(mainS)
  /\ UNCHANGED <<content, dict, extS, extD, files, mainD>>

S_Compare ==
  /\ mainS.pc = "compare" /\ mainS.i <= Len(Languages)
  /\ mainS' = StrictCompare(mainS)
  /\ UNCHANGED <<content, dict, extS, extD, files, mainD>>

S_Finish ==
  /\ mainS.pc = "compare" /\ mainS.i > Len(Languages)
  /\ mainS' = StrictFinish(mainS)
  /\ UNCHANGED <<content, dict, extS, extD, files, mainD>>

D_Extract ==
  /\ Finished(mainS)
  /\ mainD.pc = "extract" /\ mainD.i <= Len(Languages)
  /\ mainD' = DetailedExtractIteration(mainD, files)
  /\ UNCHANGED <<content, dict, extS, extD, files, mainS>>

D_Reference ==
  /\ mainD.pc = "extract" /\ mainD.i > Len(Languages)
  /\ mainD' = DetailedReference(mainD)
  /\ UNCHANGED <<content, dict, extS, extD, files, mainS>>

D_Compare ==
  /\ mainD.pc = "compare" /\ mainD.i <= Len(Languages)
  /\ mainD' = DetailedCompare(mainD)
  /\ UNCHANGED <<content, dict, extS, extD, files, mainS>>

\* print('SUMMARY:'); total_missing = 0
D_StartSummary ==
  /\ mainD.pc = "compare" /\ mainD.i > Len(Languages)
  /\ mainD' = [mainD EXCEPT !.pc = "summary", !.i = 2, !.total_missing = 0,
                            !.out = Append(@, <<"SUMMARY">>)]
  /\ UNCHANGED <<content, dict, extS, extD, files, mainS>>

D_Summary ==
  /\ mainD.pc = "summary" /\ mainD.i <= Len(Languages)
  /\ mainD' = DetailedSummary(mainD)
  /\ UNCHANGED <<content, dict, extS, extD, files, mainS>>

D_Finish ==
  /\ mainD.pc = "summary" /\ mainD.i > Len(Languages)
  /\ mainD' = DetailedFinish(mainD)
  /\ UNCHANGED <<content, dict, extS, extD, files, mainS>>

NextMain ==
  \/ S_Extract \/ S_Reference \/ S_Compare \/ S_Finish
  \/ D_Extract \/ D_Reference \/ D_Compare \/ D_StartSummary \/ D_Summary \/ D_Finish

SpecMain == InitMain /\ [][NextMain]_vars

\* Both scripts' line-by-line extraction and both scripts' main(), as one
\* system: a behaviour is an extraction of one file or a run on one directory.
InitAll == InitExtract \/ InitMain
NextAll == NextExtract \/ NextMain
SpecAll == InitAll /\ [][NextAll]_vars

\* ================================================================ claims

\* ---- what a dictionary defines (C3, C5)

\* The dot-joined paths of the dictionary's leaf keys.
RECURSIVE LeafPaths(_, _)
LeafPaths(d, prefix) ==
  IF d = <<>> THEN {}
  ELSE LET e == Head(d)
           here == IF e.kind = "leaf" THEN {Join(Append(prefix, e.key))}
                   ELSE LeafPaths(e.val, Append(prefix, e.key))
       IN  here \cup LeafPaths(Tail(d), prefix)

\* The dictionary with every leaf text blanked: its key structure.
RECURSIVE Shape(_)
Shape(d) ==
  [i \in DOMAIN d |->
     IF d[i].kind = "leaf" THEN [d[i] EXCEPT !.val = <<>>]
     ELSE [d[i] EXCEPT !.val = Shape(d[i].val)]]

\* ---- helpers of the claims about one line of the extraction loop

\* The line the extractor x is about to process.
LineAt(x) == x.lines[x.i]
Skipped(line) == Strip(line) = <<>> \/ StartsWith(Strip(line), <<"/", "/">>)
OpensObject(line) ==
  KeyMatch(line).matched /\ StartsWith(KeyMatch(line).value_part, <<"{">>)
LeafAssignment(line) ==
  KeyMatch(line).matched /\ ~StartsWith(KeyMatch(line).value_part, <<"{">>)
IsPrefix(p, s) == Len(p) <= Len(s) /\ SubSeq(s, 1, Len(p)) = p

\* ---- C7

C7_Step(x, y) ==
  ExtAtLine(x) =>
    LET line == LineAt(x)
        afterMatch == IF OpensObject(line)
                      THEN x.current_path \o <<KeyMatch(line).key_name>>
                      ELSE x.current_path
        pops == Min(Count(line, "}"), Len(afterMatch))
    IN  IF Skipped(line)
        THEN y.current_path = x.current_path /\ y.keys = x.keys
        ELSE /\ IsPrefix(y.current_path, afterMatch)
             /\ Len(y.current_path) = Len(afterMatch) - pops
             /\ Len(y.current_path) >= 0

\* C7: on every line that is neither blank nor a // comment, after the
\* key-match step the nesting path loses exactly min(number of '}' in the line,
\* path length) segments from its end (underflow ignored); blank and comment
\* lines leave the path and the result set unchanged.  Both scripts.
C7_PopPerCloseBrace == [][C7_Step(extS, extS') /\ C7_Step(extD, extD')]_vars

\* C7 witness: inside m: { the line }} (two close braces, path of length one)
\* has been processed and the path is empty.
C7_Witness ==
  /\ extS.pc = "lines" /\ extD.pc = "lines" /\ extS.i = 4 /\ extD.i = 4
  /\ extD.lines[2] = <<"m", ":", " ", "{">> /\ extD.lines[3] = <<"}", "}">>
  /\ extS.current_path = <<>> /\ extD.current_path = <<>>

\* ---- C4

C4_Step(x, y) ==
  /\ ExtAtLine(x) =>
       LET line == LineAt(x)
           full_key == Join(x.current_path \o <<KeyMatch(line).key_name>>)
       IN  /\ (~Skipped(line) /\ OpensObject(line)) => y.keys = x.keys
           /\ y.keys # x.keys =>
                /\ ~Skipped(line) /\ LeafAssignment(line)
                /\ y.keys = x.keys \cup {full_key}
  /\ ~ExtAtLine(x) => y.keys = x.keys
  /\ y.pc = "returned" => y.result \in {{}, x.keys}

C8_Step(x, y) ==
  (/\ ExtAtLine(x)
   /\ ~Skipped(LineAt(x))
   /\ OpensObject(LineAt(x))
   /\ Count(LineAt(x), "}") >= 1
   /\ Count(LineAt(x), "}") = Count(LineAt(x), "{"))
  => (y.current_path = x.current_path /\ y.keys = x.keys)

\* C8: an object-opening line that closes all its braces on the same line
\* (key: { ... }) leaves the nesting path as it was before the line and adds
\* no key path to the result set.
C8_InlineObjectKeepsPath == [][C8_Step(extS, extS') /\ C8_Step(extD, extD')]_vars

\* ---- C3

\* C3: for a nested dictionary written one entry per line, the extractor
\* returns exactly the dot-joined paths of the dictionary's leaf keys.
C3_ExactLeafPaths ==
  /\ extS.pc = "returned" => extS.result = LeafPaths(dict, <<>>)
  /\ extD.pc = "returned" => extD.result = LeafPaths(dict, <<>>)

\* ---- C10

\* C10: the two scripts' extractors are equivalent: on the same content they
\* are at the same place with the same lines, the same nesting path after every
\* line, the same key set and the same result; hence in the two scripts' runs
\* on the same files each language has the same key set and the same missing
\* set, both runs end the same way, and a strict exit status 0 implies a
\* detailed exit status 0.
C10_ExtractorsEquivalent ==
  /\ extS.pc = extD.pc
  /\ extS.pc # "idle" =>
       /\ extS.lines = extD.lines /\ extS.i = extD.i
       /\ extS.current_path = extD.current_path
       /\ extS.keys = extD.keys
       /\ extS.result = extD.result
  /\ (mainS.pc # "idle" /\ Finished(mainS)) =>
       /\ DOMAIN mainD.all_keys \subseteq DOMAIN mainS.all_keys
       /\ \A c \in DOMAIN mainD.all_keys : mainD.all_keys[c] = mainS.all_keys[c]
       /\ mainD.pc = "raised" => mainS.pc = "raised"
       /\ (mainS.pc = "raised" /\ mainD.pc # "extract") => mainD.pc = "raised"
       /\ mainD.pc \in {"compare", "summary", "done"} =>
            \A c \in NonReference :
              mainD.reference_keys \ mainD.all_keys[c]
                = mainS.reference_keys \ mainS.all_keys[c]
       /\ (mainD.pc = "done" /\ mainS.exit = 0) => mainD.exit = 0

\* C10 witness: both extractors returned the same set holding a nested path.
C10_Witness ==
  /\ extS.pc = "returned" /\ extD.pc = "returned"
  /\ extS.result = extD.result
  /\ \E k \in extS.result : Count(k, ".") >= 1
  /\ \E j \in DOMAIN extS.lines : Count(extS.lines[j], "{") > Count(extS.lines[j], "}")

\* ---- helpers of the claims about main()

MissingOf(m, c) == m.all_keys["en"] \ m.all_keys[c]
ExtraOf(m, c) == m.all_keys[c] \ m.all_keys["en"]

\* ---- C1

\* C1: when main() returns, its exit status is 0 or 1; the detailed script
\* returns 1 exactly if some non-reference language misses a key of the
\* English key set (extra keys alone never make it return 1), the strict
\* script exactly if some non-reference language has a missing or an extra key.
C1_ExitStatus ==
  /\ mainS.pc = "done" =>
       /\ mainS.exit \in {0, 1}
       /\ mainS.exit = 1 <=>
            \E c \in NonReference : MissingOf(mainS, c) # {} \/ ExtraOf(mainS, c) # {}
  /\ mainD.pc = "done" =>
       /\ mainD.exit \in {0, 1}
       /\ mainD.exit = 1 <=> \E c \in NonReference : MissingOf(mainD, c) # {}

\* C1 witness: both scripts returned on a directory where a language has an
\* extra key and none misses one: strict 1, detailed 0.
C1_Witness ==
  /\ mainS.pc = "done" /\ mainD.pc = "done"
  /\ \E c \in NonReference : ExtraOf(mainD, c) # {}
  /\ \A c \in NonReference : MissingOf(mainD, c) = {}
  /\ mainS.exit = 1 /\ mainD.exit = 0

\* ---- C2

C2_Run(m) ==
  m.pc = "done" =>
    \A c \in Codes :
      ~FileOf(files[c]).exists =>
        /\ m.all_keys[c] = {}
        /\ m.all_keys["en"] \ m.all_keys[c] = m.all_keys["en"]
        /\ m.exit = 1

\* C2: whenever the file of a configured language is absent, that language's
\* key set is empty, every reference key is missing for it, and the run, when
\* it has completed its report, has ended with exit status 1.
C2_AbsentFileFails == mainS.pc # "idle" => C2_Run(mainS) /\ C2_Run(mainD)

\* ---- C5

SameStructure ==
  /\ DOMAIN files = Codes
  /\ \A c \in Codes : files[c].name = "dict"
  /\ \A c \in Codes : Shape(files[c].d) = Shape(files["en"].d)

C5_Run(m) ==
  /\ m.pc # "raised"
  /\ m.pc \in {"compare", "summary", "done"} =>
       \A c \in NonReference : MissingOf(m, c) = {} /\ ExtraOf(m, c) = {}
  /\ m.pc = "done" => m.exit = 0

\* C5: if all five language files have the same nested key structure and
\* differ only in the text of their leaf strings, every non-reference language
\* has an empty missing set and an empty extra set and both scripts exit 0.
C5_SameStructurePasses == SameStructure => C5_Run(mainS) /\ C5_Run(mainD)

\* ---- C6

C6_Run(m, first, last) ==
  /\ m.pc # "raised"
  /\ m.pc = "done" =>
       /\ m.exit \in {0, 1}
       /\ DOMAIN m.all_keys = Codes
       /\ \A c \in NonReference :
            \E j \in DOMAIN m.out : m.out[j][1] \in {first, last} /\ m.out[j][2] = c

\* C6: whatever the files are (absent, without a dictionary literal, with
\* malformed content), a run never aborts: extraction never raises, all five
\* languages are processed, every non-reference language appears in the
\* report, and main() returns 0 or 1.
C6_NeverAborts ==
  mainS.pc # "idle" =>
    /\ C6_Run(mainS, "inconsistent", "match")
    /\ C6_Run(mainD, "language", "language")

\* ---- C9

Positions(seg, tag) == {j \in DOMAIN seg : seg[j][1] = tag}

\* What one iteration of the strict script's second loop printed for a set of
\* n keys: headline tag head, list mark, the section being the part of seg
\* from lo to hi.
C9_Section(seg, lo, hi, keys, head, mark) ==
  LET n == Cardinality(keys)
      heads == {j \in Positions(seg, head) : lo <= j /\ j <= hi}
      listed == {j \in Positions(seg, mark) : lo <= j /\ j <= hi}
      notes == {j \in Positions(seg, "more") : lo <= j /\ j <= hi}
  IN  /\ (n > 0) <=> heads # {}
      /\ \A j \in heads : seg[j][2] = n
      /\ Cardinality(listed) = Min(n, MaxShown)
      /\ \A j \in listed : seg[j][2] \in keys
      /\ \A j, k \in listed : j < k => KeyLess(seg[j][2], seg[k][2])
      /\ \A j \in listed :
           \A o \in keys \ {seg[k][2] : k \in listed} : KeyLess(seg[j][2], o)
      /\ (n > MaxShown) <=> notes # {}
      /\ Cardinality(notes) <= 1
      /\ \A j \in notes : seg[j][2] = n - MaxShown /\ \A k \in listed : k < j
      /\ Cardinality(listed) + (IF notes = {} THEN 0 ELSE n - MaxShown) = n

C9_Step(m, y) ==
  (m.pc = "compare" /\ m.i <= Len(Languages)) =>
    LET c == Languages[m.i]
        seg == SubSeq(y.out, Len(m.out) + 1, Len(y.out))
        extras == Positions(seg, "EXTRA")
        split == IF extras = {} THEN Len(seg) + 1 ELSE CHOOSE j \in extras : TRUE
    IN  /\ IsPrefix(m.out, y.out)
        /\ Cardinality(extras) <= 1
        /\ C9_Section(seg, 1, split - 1, MissingOf(m, c), "MISSING", "-")
        /\ C9_Section(seg, split, Len(seg), ExtraOf(m, c), "EXTRA", "+")

\* C9: in the strict script, for a language with n missing keys exactly
\* min(n, 20) of them are listed, the first ones in sorted order, a note
\* "... and n - 20 more" is printed if and only if n > 20, and the headline
\* gives the full n; likewise for its m extra keys.
C9_TruncatedListing == [][C9_Step(mainS, mainS')]_vars

\* C9 witness: the report holds a list of 20 keys followed by a note, and a
\* list of exactly 20 keys without one.
C9_Witness ==
  /\ mainS.pc = "done"
  /\ \E j \in Positions(mainS.out, "more") : mainS.out[j][2] >= 1
  /\ \E j \in Positions(mainS.out, "MISSING") :
       /\ mainS.out[j][2] = MaxShown
       /\ j + MaxShown <= Len(mainS.out)
       /\ mainS.out[j + MaxShown][1] = "-"
       /\ (j + MaxShown < Len(mainS.out) => mainS.out[j + MaxShown + 1][1] # "more")

====
